---- MODULE Spec2Model ----
(***************************************************************************)
(* Model of AzureMistralLoader                                             *)
(* (backend/open_webui/retrieval/loaders/azure_mistral.py).                *)
(*                                                                         *)
(* Text is a sequence of one-character strings, so that rstrip, strip and  *)
(* basename are computed character by character.  A fixed literal of the   *)
(* code ("No text content found", the URL suffix, ...) is one element of   *)
(* such a sequence.  A JSON value that Python would hold with a dynamic    *)
(* type is a record tagged by its field t.                                 *)
(***************************************************************************)
EXTENDS Integers, Sequences, FiniteSets, TLC

VARIABLES
    pc,             \* position of the caller / of load()
    api_key,        \* constructor argument
    endpoint,       \* constructor argument
    file_path,      \* constructor argument
    file_exists,    \* os.path.exists(file_path) at construction time
    ctor_error,     \* exception raised by __init__, "none" if none
    self_endpoint,  \* self.endpoint
    self_file_path, \* self.file_path
    file_read,      \* what reading the file did: "none", "ok", "failed"
    post_outcome,   \* what requests.post did: "none", "response", or the
                    \* exception it raised
    reads,          \* file reads done by the current load() call
    posts,          \* requests.post calls done by the current load() call
    url,            \* URL of the last POST of the current call
    resp,           \* response received by the current call
    error,          \* exception caught by load()'s handler, "none" if none
    raised,         \* exception that left load(), "none" if none
    docs            \* list returned by load()

vars == <<pc, api_key, endpoint, file_path, file_exists, ctor_error,
          self_endpoint, self_file_path, file_read, post_outcome, reads,
          posts, url, resp, error, raised, docs>>

----------------------------------------------------------------------------
(* Bounds and input sets *)

\* longest pages list in a response body
MaxPages == 2

SeqsUpTo(S, n) == UNION {[1..k -> S] : k \in 0..n}

ApiKeys == {<<>>, <<"k">>}

\* "h" stands for a character of an absolute URL, "/" for a slash
Endpoints == {<<>>, <<"/">>, <<"h">>, <<"h", "/">>, <<"h", "/", "/">>}

FilePaths == {<<>>, <<"a">>, <<"d", "/", "a">>, <<"d", "/">>}

None == [t |-> "none"]
StrVal(s) == [t |-> "str", s |-> s]
IntVal(n) == [t |-> "int", n |-> n]

MarkdownTexts == {<<>>, <<" ">>, <<"a">>, <<" ", "a", " ">>}

\* values of page_data.get("markdown"): null/absent, a string, a number
MarkdownValues == {None} \cup {StrVal(s) : s \in MarkdownTexts} \cup {IntVal(0)}

\* values of page_data.get("index"): null/absent, an integer, a string
IndexValues == {None} \cup {IntVal(n) : n \in 0..MaxPages - 1}
                  \cup {StrVal(<<"x">>)}

\* an element of the pages list: a JSON object, or anything else
PageEntries == {[t |-> "nonobj"]}
                  \cup {[t |-> "obj", markdown |-> m, index |-> i] :
                           m \in MarkdownValues, i \in IndexValues}

\* values of ocr_response.get("pages"): null/absent, a falsy non-list
\* (0, "", {}, false), a non-zero number, a non-empty string, a list
PagesValues == {[t |-> "absent"], [t |-> "falsy"], [t |-> "num"], [t |-> "text"]}
                  \cup {[t |-> "list", items |-> l] :
                           l \in SeqsUpTo(PageEntries, MaxPages)}

\* response bodies: not JSON, JSON that is no object, a JSON object
Bodies == {[t |-> "nojson"], [t |-> "nondict"]}
             \cup {[t |-> "dict", pages |-> p] : p \in PagesValues}

StatusCodes == {200, 304, 404, 500}

NoResp == [status |-> 0, body |-> [t |-> "nojson"]]

----------------------------------------------------------------------------
(* String helpers of the Python runtime, computed as the runtime does *)

\* str.rstrip("/")
RECURSIVE RStripSlash(_)
RStripSlash(s) ==
    IF s = <<>> THEN <<>>
    ELSE IF s[Len(s)] = "/" THEN RStripSlash(SubSeq(s, 1, Len(s) - 1))
    ELSE s

IsSpace(c) == c = " "

RECURSIVE LStrip(_)
LStrip(s) ==
    IF s = <<>> THEN <<>>
    ELSE IF IsSpace(Head(s)) THEN LStrip(Tail(s))
    ELSE s

RECURSIVE RStrip(_)
RStrip(s) ==
    IF s = <<>> THEN <<>>
    ELSE IF IsSpace(s[Len(s)]) THEN RStrip(SubSeq(s, 1, Len(s) - 1))
    ELSE s

\* str.strip()
Strip(s) == RStrip(LStrip(s))

Digits == <<"0", "1", "2", "3", "4", "5", "6", "7", "8", "9">>

\* str(n) for a one-digit number
PyStr(n) == <<Digits[n + 1]>>

\* os.path.basename: what follows the last slash
RECURSIVE basename(_)
basename(p) ==
    IF p = <<>> THEN <<>>
    ELSE IF p[Len(p)] = "/" THEN <<>>
    ELSE Append(basename(SubSeq(p, 1, Len(p) - 1)), p[Len(p)])

----------------------------------------------------------------------------
(* AzureMistralLoader.__init__ *)

\* variant: the check that the file exists is left out
InitErrorNoFileCheck(k, e, exists) ==
    IF k = <<>> THEN "ValueError: API key cannot be empty."
    ELSE IF e = <<>> THEN "ValueError: Azure Mistral OCR endpoint cannot be empty."
    ELSE "none"

\* the argument checks: the exception they raise, "none" if they all pass
InitError(k, e, exists) ==
    IF k = <<>> THEN "ValueError: API key cannot be empty."
    ELSE IF e = <<>> THEN "ValueError: Azure Mistral OCR endpoint cannot be empty."
    ELSE IF ~exists THEN "FileNotFoundError"
    ELSE "none"

\* self.endpoint = endpoint.rstrip("/")
NormalizeEndpoint(e) == RStripSlash(e)

Construct ==
    /\ pc = "new"
    /\ LET err == InitError(api_key, endpoint, file_exists) IN
         /\ ctor_error' = err
         /\ IF err # "none"
              THEN /\ pc' = "ctor_failed"
                   /\ UNCHANGED <<self_endpoint, self_file_path>>
              ELSE /\ pc' = "ready"
                   /\ self_endpoint' = NormalizeEndpoint(endpoint)
                   /\ self_file_path' = file_path
    /\ UNCHANGED <<api_key, endpoint, file_path, file_exists, file_read,
                   post_outcome, reads, posts, url, resp, error, raised, docs>>

----------------------------------------------------------------------------
(* AzureMistralLoader._process_results *)

\* variant: the path is used as it is
FullPath(fp) == fp

\* os.path.basename(self.file_path), the file_name of every document
FileName(fp) == basename(fp)

NoPagesDocument(fp) ==
    [page_content |-> <<"No text content found">>,
     metadata |-> [error |-> "no_pages", file_name |-> FileName(fp)]]

NoValidPagesDocument(total_pages, fp) ==
    [page_content |-> <<"No valid text content found in document">>,
     metadata |-> [error |-> "no_valid_pages",
                   total_pages |-> total_pages,
                   file_name |-> FileName(fp)]]

\* page_label
PageLabel(page_index) == page_index + 1

PageDocument(cleaned_content, page_index, total_pages, fp) ==
    [page_content |-> cleaned_content,
     metadata |-> [page |-> page_index,
                   page_label |-> PageLabel(page_index),
                   total_pages |-> total_pages,
                   file_name |-> FileName(fp),
                   processing_engine |-> "mistral-ocr-azure",
                   content_length |-> Len(cleaned_content)]]

\* variant: "pages_data is None" in place of "not pages_data"
NoPagesNoneOnly(pages_data) == pages_data.t \in {"absent", "falsy"}

\* not pages_data
NoPages(pages_data) ==
    \/ pages_data.t \in {"absent", "falsy"}
    \/ pages_data.t = "list" /\ pages_data.items = <<>>

\* variant: "not page_content or not page_index", which takes index 0 and
\* the empty string for missing
MissingFieldFalsy(page_content, page_index) ==
    \/ page_content \in {None, StrVal(<<>>), IntVal(0)}
    \/ page_index \in {None, IntVal(0)}

\* page_content is None or page_index is None
MissingField(page_content, page_index) ==
    page_content = None \/ page_index = None

\* variant: the text is not stripped
CleanedContentUnstripped(page_content) ==
    IF page_content.t = "str" THEN page_content.s
    ELSE PyStr(page_content.n)

\* page_content.strip() for a string, str(page_content).strip() otherwise
CleanedContent(page_content) ==
    IF page_content.t = "str" THEN Strip(page_content.s)
    ELSE Strip(PyStr(page_content.n))

\* variant: only the pages that have both fields are counted
TotalPagesPresent(items) ==
    Cardinality({i \in 1..Len(items) :
                   /\ items[i].t = "obj"
                   /\ ~MissingField(items[i].markdown, items[i].index)})

\* total_pages = len(pages_data)
TotalPages(items) == Len(items)

Raise(e) == [exc |-> e, docs |-> <<>>]

\* the for loop over pages_data; documents is the list built so far
RECURSIVE ProcessPages(_, _, _, _)
ProcessPages(items, documents, total_pages, fp) ==
    IF items = <<>> THEN [exc |-> "none", docs |-> documents]
    ELSE LET page_data == Head(items) IN
      IF page_data.t # "obj" THEN Raise("AttributeError")
      ELSE LET page_content == page_data.markdown
               page_index == page_data.index
           IN
        IF MissingField(page_content, page_index)
          THEN ProcessPages(Tail(items), documents, total_pages, fp)
        ELSE LET cleaned_content == CleanedContent(page_content) IN
          IF cleaned_content = <<>>
            THEN ProcessPages(Tail(items), documents, total_pages, fp)
          ELSE IF page_index.t # "int" THEN Raise("TypeError")
          ELSE ProcessPages(Tail(items),
                            Append(documents,
                                   PageDocument(cleaned_content, page_index.n,
                                                total_pages, fp)),
                            total_pages, fp)

\* the result is [exc, docs]: the exception raised ("none" if none) and the
\* list returned
process_results(ocr_response, fp) ==
    IF ocr_response.t # "dict" THEN Raise("AttributeError")
    ELSE LET pages_data == ocr_response.pages IN
      IF NoPages(pages_data)
        THEN [exc |-> "none", docs |-> <<NoPagesDocument(fp)>>]
      ELSE IF pages_data.t = "num" THEN Raise("TypeError")
      ELSE IF pages_data.t = "text" THEN Raise("AttributeError")
      ELSE LET total_pages == TotalPages(pages_data.items)
               r == ProcessPages(pages_data.items, <<>>, total_pages, fp)
           IN
        IF r.exc # "none" THEN r
        ELSE IF r.docs = <<>>
          THEN [exc |-> "none", docs |-> <<NoValidPagesDocument(total_pages, fp)>>]
        ELSE r

----------------------------------------------------------------------------
(* AzureMistralLoader.load *)

Exceptions ==
    {"OSError", "MissingSchema", "ConnectionError", "Timeout", "HTTPError",
     "JSONDecodeError", "AttributeError", "TypeError"}

\* variant: "except requests.RequestException"
CatchesRequestErrors(e) ==
    e \in {"MissingSchema", "ConnectionError", "Timeout", "HTTPError",
           "JSONDecodeError"}

\* except Exception
Catches(e) == e \in Exceptions

ErrorDocument(e, fp) ==
    [page_content |-> <<"Error during processing: ", e>>,
     metadata |-> [error |-> "processing_failed", file_name |-> FileName(fp)]]

\* variant: a failed request is sent again
FailRetry(e) ==
    IF e \in {"ConnectionError", "Timeout"}
      THEN /\ pc' = "encoded"
           /\ UNCHANGED <<error, raised, docs>>
      ELSE /\ pc' = "done"
           /\ error' = e
           /\ docs' = <<ErrorDocument(e, self_file_path)>>
           /\ UNCHANGED raised

\* an exception e raised inside the try block
Fail(e) ==
    /\ pc' = "done"
    /\ IF Catches(e)
         THEN /\ error' = e
              /\ docs' = <<ErrorDocument(e, self_file_path)>>
              /\ UNCHANGED raised
         ELSE /\ raised' = e
              /\ UNCHANGED <<error, docs>>

\* f"{self.endpoint}/providers/mistral/azure/ocr"
RequestUrl(e) == e \o <<"/", "providers/mistral/azure/ocr">>

\* requests refuses a URL that does not start with a scheme
ValidUrl(u) == Head(u) # "/"

\* variant: only the 5xx status codes raise
RaisesForServerError(status) == status >= 500 /\ status < 600

\* resp.raise_for_status() raises for the 4xx and 5xx status codes
RaisesForStatus(status) == status >= 400 /\ status < 600

\* open() can succeed on the path: a path that ends in a slash names a
\* directory, and any file may have become unreadable since construction
CanOpen(fp) == IF fp[Len(fp)] = "/" THEN {FALSE} ELSE BOOLEAN

\* open(self.file_path, "rb") and f.read()
ReadFile ==
    /\ pc = "ready"
    /\ reads' = reads + 1
    /\ \E readable \in CanOpen(self_file_path) :
         IF readable
           THEN /\ file_read' = "ok"
                /\ pc' = "encoded"
                /\ UNCHANGED <<error, raised, docs>>
           ELSE /\ file_read' = "failed"
                /\ Fail("OSError")
    /\ UNCHANGED <<api_key, endpoint, file_path, file_exists, ctor_error,
                   self_endpoint, self_file_path, post_outcome, posts, url,
                   resp>>

\* requests.post(url, headers=..., json=payload, timeout=self.timeout)
Post ==
    /\ pc = "encoded"
    /\ posts' = posts + 1
    /\ url' = RequestUrl(self_endpoint)
    /\ IF ~ValidUrl(url')
         THEN /\ post_outcome' = "MissingSchema"
              /\ Fail("MissingSchema")
              /\ UNCHANGED resp
         ELSE \/ \E e \in {"ConnectionError", "Timeout"} :
                   /\ post_outcome' = e
                   /\ Fail(e)
                   /\ UNCHANGED resp
              \/ \E status \in StatusCodes, body \in Bodies :
                   /\ post_outcome' = "response"
                   /\ resp' = [status |-> status, body |-> body]
                   /\ pc' = "responded"
                   /\ UNCHANGED <<error, raised, docs>>
    /\ UNCHANGED <<api_key, endpoint, file_path, file_exists, ctor_error,
                   self_endpoint, self_file_path, file_read, reads>>

\* resp.raise_for_status(), resp.json(), self._process_results, return docs
HandleResponse ==
    /\ pc = "responded"
    /\ IF RaisesForStatus(resp.status) THEN Fail("HTTPError")
       ELSE IF resp.body.t = "nojson" THEN Fail("JSONDecodeError")
       ELSE LET r == process_results(resp.body, self_file_path) IN
         IF r.exc # "none" THEN Fail(r.exc)
         ELSE /\ docs' = r.docs
              /\ pc' = "done"
              /\ UNCHANGED <<error, raised>>
    /\ UNCHANGED <<api_key, endpoint, file_path, file_exists, ctor_error,
                   self_endpoint, self_file_path, file_read, post_outcome,
                   reads, posts, url, resp>>

\* load() has returned; the loader is ready for another call
Return ==
    /\ pc = "done"
    /\ pc' = "ready"
    /\ file_read' = "none"
    /\ post_outcome' = "none"
    /\ reads' = 0
    /\ posts' = 0
    /\ url' = <<>>
    /\ resp' = NoResp
    /\ error' = "none"
    /\ raised' = "none"
    /\ docs' = <<>>
    /\ UNCHANGED <<api_key, endpoint, file_path, file_exists, ctor_error,
                   self_endpoint, self_file_path>>

----------------------------------------------------------------------------

Init ==
    /\ pc = "new"
    /\ api_key \in ApiKeys
    /\ endpoint \in Endpoints
    /\ file_path \in FilePaths
    /\ file_exists \in BOOLEAN
    /\ file_path = <<>> => ~file_exists
    /\ ctor_error = "none"
    /\ self_endpoint = <<>>
    /\ self_file_path = <<>>
    /\ file_read = "none"
    /\ post_outcome = "none"
    /\ reads = 0
    /\ posts = 0
    /\ url = <<>>
    /\ resp = NoResp
    /\ error = "none"
    /\ raised = "none"
    /\ docs = <<>>

Next == Construct \/ ReadFile \/ Post \/ HandleResponse \/ Return

Spec == Init /\ [][Next]_vars

----------------------------------------------------------------------------
(* Vocabulary of the properties *)

\* load() has ended
Returned == pc = "done"

\* the OCR call got a response with a 2xx status whose body is a JSON object
OcrSucceeded ==
    /\ Returned
    /\ post_outcome = "response"
    /\ resp.status \in 200..299
    /\ resp.body.t = "dict"

\* ... and that object holds a non-empty list of pages
HasPagesList ==
    /\ OcrSucceeded
    /\ resp.body.pages.t = "list"
    /\ resp.body.pages.items # <<>>

IsPageDocument(d) == "page" \in DOMAIN d.metadata

IsPageObject(e) == e.t = "obj" /\ e.index.t \in {"none", "int"}

\* s has a character that is not white space
HasText(s) == \E i \in 1..Len(s) : s[i] # " "

\* the text str() gives for a markdown value
TextOf(m) == IF m.t = "str" THEN m.s ELSE PyStr(m.n)

\* c is s without its leading and trailing white space
IsTrimOf(c, s) ==
    /\ c # <<>>
    /\ c[1] # " "
    /\ c[Len(c)] # " "
    /\ \E a \in 0..Len(s) :
         /\ a + Len(c) <= Len(s)
         /\ SubSeq(s, a + 1, a + Len(c)) = c
         /\ \A i \in 1..a : s[i] = " "
         /\ \A i \in (a + Len(c) + 1)..Len(s) : s[i] = " "

\* fn is fp from after its last slash on, and holds no slash
IsBaseNameOf(fn, fp) ==
    /\ \A i \in 1..Len(fn) : fn[i] # "/"
    /\ Len(fn) <= Len(fp)
    /\ fn = SubSeq(fp, Len(fp) - Len(fn) + 1, Len(fp))
    /\ Len(fn) < Len(fp) => fp[Len(fp) - Len(fn)] = "/"

\* docs is the single placeholder of the except branch, reporting desc
IsFailureResult(desc) ==
    /\ Len(docs) = 1
    /\ DOMAIN docs[1].metadata = {"error", "file_name"}
    /\ docs[1].metadata.error = "processing_failed"
    /\ IsBaseNameOf(docs[1].metadata.file_name, file_path)
    /\ \E i \in 1..Len(docs[1].page_content) : docs[1].page_content[i] = desc

----------------------------------------------------------------------------
(* C1 *)

\* C1: whatever the file read, the HTTP call and the response body do,
\* load() lets no exception out and returns a non-empty list of documents.
LoadNeverRaises ==
    /\ raised = "none"
    /\ Returned => Len(docs) >= 1

\* a malformed body (an index that is no number) ends in a returned document
LoadNeverRaisesWitness ==
    /\ Returned
    /\ error = "TypeError"
    /\ raised = "none"
    /\ Len(docs) = 1

----------------------------------------------------------------------------
(* C2 *)

\* C2: construction fails with a configuration error exactly when api_key
\* is empty, endpoint is empty or file_path names no existing file; a failed
\* construction yields no loader and has made no network access.
ConstructionValidates ==
    pc # "new" =>
      /\ (api_key = <<>> \/ endpoint = <<>> \/ ~file_exists)
           <=> pc = "ctor_failed"
      /\ pc = "ctor_failed" <=> ctor_error # "none"
      /\ pc = "ctor_failed" =>
           /\ self_endpoint = <<>>
           /\ self_file_path = <<>>
           /\ posts = 0
           /\ post_outcome = "none"

\* a construction that failed on the missing file alone
ConstructionValidatesWitness ==
    /\ pc = "ctor_failed"
    /\ api_key # <<>>
    /\ endpoint # <<>>
    /\ ~file_exists
    /\ ctor_error = "FileNotFoundError"

----------------------------------------------------------------------------
(* C3 *)

\* the pages of the response carry the indices 0..N-1 in sequence and a
\* string as markdown
SequentialPages ==
    /\ HasPagesList
    /\ \A i \in 1..Len(resp.body.pages.items) :
         /\ resp.body.pages.items[i].t = "obj"
         /\ resp.body.pages.items[i].index = IntVal(i - 1)
         /\ resp.body.pages.items[i].markdown.t = "str"

\* one document per page, in index order
AllPagesReturned ==
    /\ Len(docs) = Len(resp.body.pages.items)
    /\ \A i \in 1..Len(docs) :
         /\ IsPageDocument(docs[i])
         /\ docs[i].metadata.page = i - 1
         /\ docs[i].metadata.total_pages = Len(resp.body.pages.items)
         /\ docs[i].metadata.page_label = docs[i].metadata.page + 1

\* C3 as stated: N >= 1 pages with indices 0..N-1 whose markdown is non-empty
\* give exactly N documents, in index order, with total_pages = N and
\* page_label = page + 1.
NonEmptyPagesAllReturned ==
    (/\ SequentialPages
     /\ \A i \in 1..Len(resp.body.pages.items) :
          resp.body.pages.items[i].markdown.s # <<>>)
      => AllPagesReturned

\* C3 amended: N >= 1 pages with indices 0..N-1 whose markdown is not empty
\* after its white space is trimmed give exactly N documents, in index
\* order, with total_pages = N and page_label = page + 1.
NonBlankPagesAllReturned ==
    (/\ SequentialPages
     /\ \A i \in 1..Len(resp.body.pages.items) :
          HasText(resp.body.pages.items[i].markdown.s))
      => AllPagesReturned

\* two pages with text, indices 0 and 1, returned as two documents
NonBlankPagesAllReturnedWitness ==
    /\ SequentialPages
    /\ Len(resp.body.pages.items) = 2
    /\ \A i \in 1..2 : HasText(resp.body.pages.items[i].markdown.s)
    /\ Len(docs) = 2
    /\ docs[1].metadata.page = 0
    /\ docs[1].metadata.page_label = 1

----------------------------------------------------------------------------
(* C4 *)

\* C4 as stated: a network failure, a timeout or a status outside 2xx ends
\* in the single processing_failed document, carrying the base file name and
\* the description of the error; the body is not mapped.
TransportFailureReported ==
    (/\ Returned
     /\ \/ post_outcome \in {"ConnectionError", "Timeout"}
        \/ post_outcome = "response" /\ resp.status \notin 200..299)
      => /\ error # "none"
         /\ IsFailureResult(error)

\* C4 amended: a network failure, a timeout or a 4xx or 5xx status ends in
\* the single processing_failed document, carrying the base file name and
\* the description of the error; the body is not mapped.
ErrorStatusReported ==
    (/\ Returned
     /\ \/ post_outcome \in {"ConnectionError", "Timeout"}
        \/ post_outcome = "response" /\ resp.status \in 400..599)
      => IsFailureResult(IF post_outcome = "response" THEN "HTTPError"
                         ELSE post_outcome)

\* status 500 with a body full of good pages: one processing_failed document
ErrorStatusReportedWitness ==
    /\ Returned
    /\ post_outcome = "response"
    /\ resp.status = 500
    /\ resp.body.t = "dict"
    /\ resp.body.pages.t = "list"
    /\ Len(resp.body.pages.items) = 2
    /\ \A i \in 1..2 :
         /\ resp.body.pages.items[i].t = "obj"
         /\ resp.body.pages.items[i].index = IntVal(i - 1)
         /\ resp.body.pages.items[i].markdown = StrVal(<<"a">>)
    /\ IsFailureResult("HTTPError")

----------------------------------------------------------------------------
(* C5 *)

\* the page is dropped by the loop: a field is missing or the text is blank
FilteredOut(e) ==
    /\ e.t = "obj"
    /\ \/ e.markdown = None
       \/ e.index = None
       \/ e.markdown.t = "str" /\ ~HasText(e.markdown.s)

NoValidPagesResult ==
    /\ Len(docs) = 1
    /\ docs[1].page_content = <<"No valid text content found in document">>
    /\ DOMAIN docs[1].metadata = {"error", "total_pages", "file_name"}
    /\ docs[1].metadata.error = "no_valid_pages"
    /\ docs[1].metadata.total_pages = Len(resp.body.pages.items)
    /\ IsBaseNameOf(docs[1].metadata.file_name, file_path)

\* C5: no document is emitted for a page whose markdown is empty or white
\* space only; a non-empty pages list of which every page is filtered out
\* gives the single no_valid_pages placeholder, never an empty list.
BlankPagesDropped ==
    /\ Returned =>
         \A i \in 1..Len(docs) :
           IsPageDocument(docs[i]) => HasText(docs[i].page_content)
    /\ HasPagesList =>
         Cardinality({i \in 1..Len(docs) : IsPageDocument(docs[i])})
           <= Cardinality({i \in 1..Len(resp.body.pages.items) :
                             ~FilteredOut(resp.body.pages.items[i])})
    /\ (/\ HasPagesList
        /\ \A i \in 1..Len(resp.body.pages.items) :
             FilteredOut(resp.body.pages.items[i]))
         => NoValidPagesResult

\* two pages, both white space only: the no_valid_pages placeholder
BlankPagesDroppedWitness ==
    /\ HasPagesList
    /\ Len(resp.body.pages.items) = 2
    /\ \A i \in 1..2 :
         /\ resp.body.pages.items[i].t = "obj"
         /\ resp.body.pages.items[i].index = IntVal(i - 1)
         /\ resp.body.pages.items[i].markdown = StrVal(<<" ">>)
    /\ NoValidPagesResult

----------------------------------------------------------------------------
(* C6 *)

NoPagesResult ==
    /\ Len(docs) = 1
    /\ docs[1].page_content = <<"No text content found">>
    /\ DOMAIN docs[1].metadata = {"error", "file_name"}
    /\ docs[1].metadata.error = "no_pages"

\* C6: a successful response whose pages field is absent or empty gives
\* exactly one document, "No text content found" with error no_pages.
EmptyResponseReported ==
    (/\ OcrSucceeded
     /\ \/ resp.body.pages.t = "absent"
        \/ resp.body.pages.t = "list" /\ resp.body.pages.items = <<>>)
      => NoPagesResult

\* an empty pages list reported as no_pages
EmptyResponseReportedWitness ==
    /\ OcrSucceeded
    /\ resp.body.pages.t = "list"
    /\ resp.body.pages.items = <<>>
    /\ NoPagesResult

----------------------------------------------------------------------------
(* C7 *)

\* C7: a constructed loader stores a non-empty endpoint without trailing
\* slash, which is the given endpoint less its trailing slashes, and the
\* request URL is that endpoint followed by /providers/mistral/azure/ocr.
StoredEndpointNonEmpty ==
    pc \notin {"new", "ctor_failed"} =>
      /\ self_endpoint # <<>>
      /\ self_endpoint[Len(self_endpoint)] # "/"
      /\ \E k \in 0..Len(endpoint) :
           /\ self_endpoint = SubSeq(endpoint, 1, Len(endpoint) - k)
           /\ \A i \in (Len(endpoint) - k + 1)..Len(endpoint) : endpoint[i] = "/"
      /\ posts > 0 =>
           url = self_endpoint \o <<"/", "providers/mistral/azure/ocr">>

----------------------------------------------------------------------------
(* C8 *)

\* C8: in every document load() returns, on the success path and on each
\* placeholder path, file_name is the base name of file_path, free of any
\* directory component.
FileNameIsBaseName ==
    Returned =>
      \A i \in 1..Len(docs) :
        IsBaseNameOf(docs[i].metadata.file_name, file_path)

\* a page document of a file given with its directory
FileNameIsBaseNameWitness ==
    /\ Returned
    /\ file_path = <<"d", "/", "a">>
    /\ Len(docs) = 2
    /\ \A i \in 1..2 :
         /\ IsPageDocument(docs[i])
         /\ docs[i].metadata.file_name = <<"a">>

----------------------------------------------------------------------------
(* C9 *)

\* the page has both fields and text left after trimming
Kept(e) ==
    /\ e.markdown # None
    /\ e.index # None
    /\ HasText(TextOf(e.markdown))

\* C9: for a non-empty list of page objects, the page documents are the
\* pages that have markdown, index and a non-empty trimmed text, in response
\* order and once each, and total_pages counts every entry of the list.
PagesMappedInOrder ==
    (/\ HasPagesList
     /\ \A i \in 1..Len(resp.body.pages.items) :
          IsPageObject(resp.body.pages.items[i]))
      => LET items == resp.body.pages.items
             kept == SelectSeq(items, Kept)
             pageDocs == SelectSeq(docs, IsPageDocument)
         IN /\ Len(pageDocs) = Len(kept)
            /\ kept # <<>> => pageDocs = docs
            /\ \A i \in 1..Len(pageDocs) :
                 /\ pageDocs[i].metadata.page = kept[i].index.n
                 /\ IsTrimOf(pageDocs[i].page_content, TextOf(kept[i].markdown))
                 /\ pageDocs[i].metadata.total_pages = Len(items)

\* index 1 before index 0 with a skipped page: documents in response order
PagesMappedInOrderWitness ==
    /\ HasPagesList
    /\ resp.body.pages.items =
         <<[t |-> "obj", markdown |-> StrVal(<<" ", "a", " ">>),
            index |-> IntVal(1)],
           [t |-> "obj", markdown |-> StrVal(<<"a">>), index |-> IntVal(0)]>>
    /\ Len(docs) = 2
    /\ docs[1].metadata.page = 1
    /\ docs[2].metadata.page = 0

----------------------------------------------------------------------------
(* C10 *)

\* C10: a load() call reads the file once and posts at most once; it posts
\* only after the file was read; an unreadable file ends the call with the
\* processing_failed placeholder and no POST; a failed POST is not repeated.
OneReadAtMostOnePost ==
    /\ reads <= 1
    /\ posts <= 1
    /\ posts > 0 => reads = 1 /\ file_read = "ok"
    /\ pc \in {"encoded", "responded", "done"} => reads = 1
    /\ (Returned /\ file_read = "failed") =>
         /\ posts = 0
         /\ post_outcome = "none"
         /\ IsFailureResult("OSError")
    /\ (Returned /\ post_outcome \notin {"none", "response"}) => posts = 1

\* an unreadable file: the placeholder, and nothing was posted
OneReadAtMostOnePostWitness ==
    /\ Returned
    /\ file_read = "failed"
    /\ reads = 1
    /\ posts = 0
    /\ IsFailureResult("OSError")

====
